---- MODULE Spec2Model ----
(***************************************************************************)
(* The "catch the star" motion game.  The repository holds two copies of   *)
(* the engine:                                                             *)
(*   "fallback"  src/unnamed/part_001  camera with touch/pointer fallback  *)
(*   "camera"    src/index.tsx:242-473 camera only                         *)
(* The variable `variant` says which of the two programs is running; every *)
(* operator that differs between the copies takes it as parameter v.       *)
(*                                                                         *)
(* Units.  Fractional screen coordinates are kept in hundredths (0.15 is   *)
(* 15), times in milliseconds.  A star's scale is the result of repeated   *)
(* IEEE-754 double additions; it is kept as the pair                       *)
(*   [grow  |-> number of fade-in increments applied,                      *)
(*    burst |-> number of post-collection increments applied]              *)
(* which determines the double exactly (all fade-in increments precede     *)
(* all burst increments), and the two comparisons the code makes on it     *)
(* (scale < 1, scale > ceiling) are evaluated as the doubles evaluate.     *)
(* A star's size and hue only feed the drawing calls and are left out.     *)
(***************************************************************************)
EXTENDS Integers, Sequences, FiniteSets, TLC

\* ------------------------------------------------------------- bounds
\* size of the motion canvas (set by the hosting page, not by the engine)
GridW == 4
GridH == 4
\* length of a session, in looks at the clock: MaxTicks lets a collected star
\* burst until it is dropped.  No session sees more than MaxEvents input
\* events, and one that uses more than a third of them ends after BusyTicks.
MaxTicks == 21
BusyTicks == 3
MaxEvents == 3
\* cap on the refresh callbacks pending at once
MaxRaf == 2
\* cap on the calls of startGame() in one life of the gesture game's page
MaxGames == 2

\* ---------------------------------------------------- program constants
NoTouch == -100          \* the sentinel -1, in hundredths
HitRadius == 15          \* 0.15, in hundredths
Reward == 10

Fallback == "fallback"
Camera == "camera"
Variants == {Fallback, Camera}

GESTURE_THRESHOLD(v) == IF v = Fallback THEN 35 ELSE 40
StarCap(v) == IF v = Fallback THEN 6 ELSE 5
SpawnInterval(v) == IF v = Fallback THEN 1000 ELSE 1500
HitCells(v) == IF v = Fallback THEN 2 ELSE 3
\* mutant: a count equal to the threshold is a hit
HitCount_Inclusive(v) == IF v = Fallback THEN 3 ELSE (HitCells(v) * 2 + 1) * 2 - 1

HitCount(v) == IF v = Fallback THEN 4 ELSE (HitCells(v) * 2 + 1) * 2

\* ------------------------------------------------------------ the scale
\* scale < 1 after `grow` additions of the fade-in step to 0:
\* ten additions of 0.1 give 0.9999999999999999, so an eleventh is made;
\* twenty additions of 0.05 give 1.0000000000000002.
GrowLimit(v) == IF v = Fallback THEN 11 ELSE 20

\* The number of additions of 0.2 after which the double exceeds the
\* ceiling (4, resp. 3), by the number of fade-in additions made before.
BurstLimit(v) ==
  IF v = Fallback
  THEN <<20, 19, 19, 18, 18, 17, 17, 16, 16, 15, 15>>
  ELSE <<15, 15, 15, 14, 14, 14, 14, 13, 13, 13, 13, 12, 12, 12, 12, 11, 11, 11, 11, 10>>

ScaleBelowOne(v, scale) == scale.burst = 0 /\ scale.grow < GrowLimit(v)

ScaleAboveCeiling(v, scale) == scale.burst >= BurstLimit(v)[scale.grow]

\* ----------------------------------------------------------- the frames
Cells == 0 .. (GridW * GridH - 1)

\* The frames the camera delivers, by name; Pixels gives a frame's cells.
\* Null is prevFrame = null, NotReady a video with readyState < 2.
Null == "null"
NotReady == "notready"

\* a pixel is <<r, g, b, a>>
Dark == <<0, 0, 0, 255>>
Clear == <<0, 0, 0, 0>>
Warm == <<20, 10, 10, 255>>
Vivid == <<200, 100, 50, 255>>

Frames == {"dark", "vivid", "partial"}

Pixels(frame) ==
  [c \in Cells |->
     CASE frame = "dark" -> Dark
       [] frame = "vivid" -> Vivid
       [] frame = "partial" -> IF c < GridW + 1 THEN Warm ELSE Dark
       [] frame = "clear" -> Clear]

Abs(n) == IF n < 0 THEN -n ELSE n

Diff(p, q) == Abs(p[1] - q[1]) + Abs(p[2] - q[2]) + Abs(p[3] - q[3])

\* mutant: the comparison with the threshold turned round
Flagged_Below(p, q, threshold) == Diff(p, q) < threshold

\* mutant: a difference equal to the threshold flags the cell
Flagged_AtThreshold(p, q, threshold) == Diff(p, q) >= threshold

Flagged(p, q, threshold) == Diff(p, q) > threshold

\* mutant: the frame compared with a blank canvas instead of the previous frame
MotionMap_Blank(prev, cur, threshold) ==
  [c \in Cells |-> IF Flagged(Pixels(cur)[c], Clear, threshold) THEN 1 ELSE 0]

\* mutant: the guard without the readyState test
Guarded_NoReadyState(v, camActive, vid) == v = Fallback /\ ~camActive

MotionMap(prev, cur, threshold) ==
  [c \in Cells |->
     IF prev # Null /\ Flagged(Pixels(cur)[c], Pixels(prev)[c], threshold) THEN 1 ELSE 0]

EmptySample == [motionMap |-> <<>>, width |-> 0, height |-> 0]

\* what getImageData returns after drawImage: the video's frame, or, when the
\* video has no frame, what the canvas held before
Drawn(vid, prev) == IF vid # NotReady THEN vid ELSE IF prev = Null THEN "clear" ELSE prev

Guarded(v, camActive, vid) == v = Fallback /\ (~camActive \/ vid = NotReady)

DetectMotion(v, camActive, vid, prev) ==
  IF Guarded(v, camActive, vid)
  THEN [sample |-> EmptySample, prevFrame |-> prev]
  ELSE LET currentFrame == Drawn(vid, prev)
       IN [sample |-> [motionMap |-> MotionMap(prev, currentFrame, GESTURE_THRESHOLD(v)),
                       width |-> GridW, height |-> GridH],
           prevFrame |-> currentFrame]

\* ------------------------------------------------------------ the stars
\* A star carries, besides the fields of the interface Star, three history
\* fields the code does not have:
\*   awards  how often this star added to the score,
\*   source  which test set isHit when it was collected,
\*   hit     which test set isHit in the last iteration ("none": isHit stayed false).
NewStar(id, xy) ==
  [id |-> id, x |-> xy[1], y |-> xy[2], active |-> TRUE, collected |-> FALSE,
   scale |-> [grow |-> 0, burst |-> 0],
   awards |-> 0, source |-> "none", hit |-> "none"]

ActiveCount(ss) == Cardinality({i \in 1 .. Len(ss) : ss[i].active})

\* mutant: the interval compared with >= instead of >
MaySpawn_AtInterval(v, ss, last, clock) ==
  clock - last >= SpawnInterval(v) /\ ActiveCount(ss) < StarCap(v)

\* mutant: the cap compared with <= instead of <
MaySpawn_AtCap(v, ss, last, clock) ==
  clock - last > SpawnInterval(v) /\ ActiveCount(ss) <= StarCap(v)

\* mutant: only the uncollected stars counted against the cap
MaySpawn_CountsUncollected(v, ss, last, clock) ==
  /\ clock - last > SpawnInterval(v)
  /\ Cardinality({i \in 1 .. Len(ss) : ~ss[i].collected}) < StarCap(v)

MaySpawn(v, ss, last, clock) ==
  clock - last > SpawnInterval(v) /\ ActiveCount(ss) < StarCap(v)

\* mutant: lastStarTime left as it was after a spawn
SpawnStar_StaleTime(v, ss, last, clock, xy) ==
  IF MaySpawn(v, ss, last, clock)
  THEN [stars |-> Append(ss, NewStar(clock, xy)), lastStarTime |-> last]
  ELSE [stars |-> ss, lastStarTime |-> last]

SpawnStar(v, ss, last, clock, xy) ==
  IF MaySpawn(v, ss, last, clock)
  THEN [stars |-> Append(ss, NewStar(clock, xy)), lastStarTime |-> clock]
  ELSE [stars |-> ss, lastStarTime |-> last]

Grow(v, star) ==
  IF ~star.collected /\ ScaleBelowOne(v, star.scale)
  THEN [star EXCEPT !.scale.grow = @ + 1]
  ELSE star

\* the touch/cursor test (only the fallback engine has one)
PointerHit(v, star, tx, ty) ==
  /\ v = Fallback
  /\ tx # NoTouch
  /\ (star.x - tx) * (star.x - tx) + (star.y - ty) * (star.y - ty) < HitRadius * HitRadius

\* the flagged cells of the square around cell (gridX, gridY)
HitsAround(v, gridX, gridY, sample) ==
  LET mw == sample.width
      mh == sample.height
      r == HitCells(v)
  IN Cardinality({d \in (-r .. r) \X (-r .. r) :
        LET gx == gridX + d[1]
            gy == gridY + d[2]
        IN gx >= 0 /\ gx < mw /\ gy >= 0 /\ gy < mh /\ sample.motionMap[gy * mw + gx] = 1})

MotionHits(v, star, sample) ==
  CHOOSE hits \in {HitsAround(v, grid[1], grid[2], sample) :
                     grid \in {<<(star.x * sample.width) \div 100,
                                 (star.y * sample.height) \div 100>>}} : TRUE

CameraChecked(v, camActive, sample) ==
  IF v = Fallback THEN camActive /\ sample.width > 0 ELSE TRUE

\* the camera test, made when the touch test did not match
CameraHit(v, star, camActive, sample) ==
  CameraChecked(v, camActive, sample) /\ MotionHits(v, star, sample) > HitCount(v)

\* mutant: the camera test made first
HitSource_CameraFirst(v, star, tx, ty, camActive, sample) ==
  IF CameraHit(v, star, camActive, sample) THEN "camera"
  ELSE IF PointerHit(v, star, tx, ty) THEN "pointer"
  ELSE "none"

\* which test sets isHit: "none" when isHit stays false
HitSource(v, star, tx, ty, camActive, sample) ==
  IF PointerHit(v, star, tx, ty) THEN "pointer"
  ELSE IF CameraHit(v, star, camActive, sample) THEN "camera"
  ELSE "none"

\* mutant: the award not guarded by the collected flag
Collects_Unguarded(isHit, star) == isHit

\* mutant: only a star that has faded in is collected
Collects_FullSize(isHit, star) ==
  isHit /\ ~star.collected /\ ~ScaleBelowOne(Fallback, star.scale)

Collects(isHit, star) == isHit /\ ~star.collected

Collect(star, src) ==
  [star EXCEPT !.collected = TRUE, !.awards = @ + 1, !.source = src, !.hit = src]

\* mutant: the reward added for every star tested
Scored_EveryStar(points, collects) == points + Reward

Scored(points, collects) == IF collects THEN points + Reward ELSE points

\* mutant: the pointer position kept after a collection
TouchAfter_Kept(v, collects, t) == t

\* mutant: the pointer cleared after every test
TouchAfter_Cleared(v, collects, t) == NoTouch

\* lastTouchX and lastTouchY after the test of one star
TouchAfter(v, collects, t) == IF collects /\ v = Fallback THEN NoTouch ELSE t

\* mutant: the burst step made for every star
Burst_AnyStar(v, star) ==
  LET s == [star EXCEPT !.scale.burst = @ + 1]
  IN [s EXCEPT !.active = ~ScaleAboveCeiling(v, s.scale)]

\* mutant: the burst step made only in the iteration that collects the star
Burst_OnceOnly(v, star) ==
  IF star.collected /\ star.scale.burst = 0
  THEN [star EXCEPT !.scale.burst = @ + 1]
  ELSE star

\* mutant: the ceiling tested before the increment
Burst_TestFirst(v, star) ==
  IF star.collected
  THEN [star EXCEPT !.scale.burst = @ + 1, !.active = ~ScaleAboveCeiling(v, star.scale)]
  ELSE star

Burst(v, star) ==
  IF star.collected
  THEN LET s == [star EXCEPT !.scale.burst = @ + 1]
       IN [s EXCEPT !.active = ~ScaleAboveCeiling(v, s.scale)]
  ELSE star

\* the end of the filter callback for a star grown to star1 whose hit test
\* gave src: acc carries the fields the callback writes
Settled(v, star1, src, acc) ==
  LET collects == Collects(src # "none", star1)
      star2 == IF collects THEN Collect(star1, src)
               ELSE [star1 EXCEPT !.hit = src]
      star3 == Burst(v, star2)
  IN [stars |-> IF star3.active THEN Append(acc.stars, star3) ELSE acc.stars,
      score |-> Scored(acc.score, collects),
      lastTouchX |-> TouchAfter(v, collects, acc.lastTouchX),
      lastTouchY |-> TouchAfter(v, collects, acc.lastTouchY),
      drawn |-> acc.drawn \cup {star3.id},
      dropped |-> IF star3.active THEN acc.dropped ELSE acc.dropped \cup {star3.id}]

\* the hit test and what follows it
HitTested(v, star1, acc, camActive, sample) ==
  CHOOSE r \in {Settled(v, star1, src, acc) :
                  src \in {HitSource(v, star1, acc.lastTouchX, acc.lastTouchY,
                                     camActive, sample)}} : TRUE

\* one call of the filter callback
StarStep(v, star0, acc, camActive, sample) ==
  IF ~star0.active THEN acc
  ELSE CHOOSE r \in {HitTested(v, star1, acc, camActive, sample) :
                       star1 \in {Grow(v, star0)}} : TRUE

RECURSIVE FilterStars(_, _, _, _, _)
FilterStars(v, ss, acc, camActive, sample) ==
  IF ss = <<>> THEN acc
  ELSE CHOOSE r \in {FilterStars(v, Tail(ss), next, camActive, sample) :
                       next \in {StarStep(v, Head(ss), acc, camActive, sample)}} : TRUE

\* ------------------------------------------------- the gesture game
\* The React component App of src/unnamed/part_000: its state hooks, the
\* refs its handlers use, and the calls of startGame() with the Live session
\* each one opens.
GameState == {"IDLE", "CONNECTING", "PLAYING", "FINISHED"}

GESTURES == <<"scissors", "thumbsUp", "ok", "highFive", "heart", "fist">>

\* where a call of startGame() stands: waiting for the camera and the video,
\* waiting for the session promise, or returned
Awaits == {"media", "connect", "returned"}

\* a Live session: not asked for, connecting, open, closed by close() with
\* its onclose callback still to run, closed
Sessions == {"none", "pending", "open", "closing", "closed"}

\* The component after its first render.  sessionRef is 0 for null, else the
\* number of the call whose session it holds; frameInterval tells whether the
\* interval frameIntervalRef names is running; ended is history: handleNext
\* took its last-gesture branch since the last startGame().
Mounted == [gameState |-> "IDLE", currentGestureIndex |-> 0, score |-> 0,
            error |-> FALSE, sessionRef |-> 0, frameInterval |-> FALSE,
            calls |-> <<>>, ended |-> FALSE]

\* sessionRef.current.close(): closing an open session schedules its onclose
CloseSession(calls, ref) ==
  IF ref # 0 /\ calls[ref].session = "open"
    THEN [calls EXCEPT ![ref].session = "closing"]
    ELSE calls

StopGame(a) ==
  [a EXCEPT !.frameInterval = FALSE,
            !.calls = CloseSession(a.calls, a.sessionRef),
            !.gameState = "IDLE"]

\* startGame() up to its first await
StartGame(a) ==
  [a EXCEPT !.error = FALSE,
            !.gameState = "CONNECTING",
            !.score = 0,
            !.currentGestureIndex = 0,
            !.calls = Append(@, [at |-> "media", session |-> "none"]),
            !.ended = FALSE]

\* the catch block of call i of startGame()
Caught(a, i) ==
  [a EXCEPT !.error = TRUE,
            !.gameState = "IDLE",
            !.calls[i].at = "returned"]

\* The setters of one handler are applied in the order of the calls, so the
\* state after handleNext's last-gesture branch is the one stopGame() sets.
HandleNext_NoLast(a) ==
  [a EXCEPT !.currentGestureIndex = @ + 1,
            !.score = @ + 100]

HandleNext(a) ==
  IF a.currentGestureIndex < Len(GESTURES) - 1
    THEN [a EXCEPT !.currentGestureIndex = @ + 1,
                   !.score = @ + 100]
    ELSE [StopGame([a EXCEPT !.gameState = "FINISHED"]) EXCEPT !.ended = TRUE]

\* ----------------------------------------------------------- the engine
VARIABLES
  variant,        \* which copy of the engine runs
  initDone,       \* init() has returned
  startListeners, \* click listeners on the start button that call start()
  cameraActive,
  isPlaying,
  score,
  stars,
  lastStarTime,
  lastTouchX,
  lastTouchY,
  prevFrame,
  raf,            \* gameLoop callbacks waiting for the next display refresh
  now,            \* Date.now()
  events,         \* input events so far (see Sees)
  collections,    \* history: stars that went from uncollected to collected since start()
  drawn,          \* history: the ids of the stars the last iteration drew
  dropped,        \* history: the ids of the stars the filter has dropped since the page loaded
  spawned,        \* history: the ids of the stars spawned since the page loaded, in order
  stopAsked,      \* the page has asked the game to stop (see StopSpec)
  probe,          \* the inputs and results of a comparison of two frames (see MotionSpec)
  touches,        \* history: the positions handleInteraction has recorded since the last iteration
  pointed,        \* history: the pointer events handleInteraction has recorded since start()
  app,            \* the React gesture game: its state, refs and pending calls (see AppSpec)
  video           \* the video element's current frame, NotReady when readyState < 2

vars == <<variant, initDone, startListeners, cameraActive, isPlaying, score,
          stars, lastStarTime, lastTouchX, lastTouchY, prevFrame, raf, now, video, events,
          collections, spawned, drawn, dropped, stopAsked, probe, touches, pointed, app>>

\* The clock at page load, and its advance between two looks at it: just past
\* the spawn interval (OnTime), or exactly the interval.
Epoch == 2 * 1000
OnTime(v) == SpawnInterval(v) + 1
ClockSteps(v) == {SpawnInterval(v), OnTime(v)}
Horizon(v, ticks) == Epoch + ticks * OnTime(v)

\* the bound on the session: ev input events by the time the clock shows `clock`
Allowed(v, ev, clock) ==
  /\ ev <= MaxEvents
  /\ clock <= Horizon(v, MaxTicks)
  /\ 3 * ev > MaxEvents => clock <= Horizon(v, BusyTicks)

\* where Math.random() puts a star, and where the player points
Home == <<52, 51>>
StarSpots == {Home, <<20, 70>>}
PointerSpots == {<<50, 50>>, <<25, 64>>}

InitOutcomes == {"ok", "unsupported", "notfound", "denied", "playrejected"}

Engine ==
  [isPlaying |-> isPlaying, score |-> score, stars |-> stars, lastStarTime |-> lastStarTime,
   lastTouchX |-> lastTouchX, lastTouchY |-> lastTouchY, prevFrame |-> prevFrame, raf |-> raf,
   collections |-> collections, spawned |-> spawned, drawn |-> drawn, dropped |-> dropped]

Becomes(e) ==
  /\ isPlaying' = e.isPlaying
  /\ score' = e.score
  /\ stars' = e.stars
  /\ lastStarTime' = e.lastStarTime
  /\ lastTouchX' = e.lastTouchX
  /\ lastTouchY' = e.lastTouchY
  /\ prevFrame' = e.prevFrame
  /\ raf' = e.raf
  /\ collections' = e.collections
  /\ spawned' = e.spawned
  /\ drawn' = e.drawn
  /\ dropped' = e.dropped

\* the stars of ss whose collected flag the iteration that left ss has set: a
\* collected star has burst once, and bursts again in every later iteration
NewlyCollected(ss) == {i \in 1 .. Len(ss) : ss[i].collected /\ ss[i].scale.burst = 1}

\* mutant: the iteration ends without requestAnimationFrame
Rescheduled_Never(pending) == pending

\* requestAnimationFrame at the end of an iteration
Rescheduled(pending) == pending + 1

\* gameLoop(): one iteration on engine fields e, with the video frame, the clock
\* and the position Math.random() yields should a star spawn
\* the engine fields after an iteration that sampled m, spawned sp and got f
\* from the filter
Iterated(e, m, sp, f) ==
  [e EXCEPT !.prevFrame = m.prevFrame,
            !.lastStarTime = sp.lastStarTime,
            !.stars = f.stars,
            !.score = f.score,
            !.lastTouchX = f.lastTouchX,
            !.lastTouchY = f.lastTouchY,
            !.raf = Rescheduled(@),
            !.collections = @ + Cardinality(NewlyCollected(f.stars)),
            !.drawn = f.drawn,
            !.dropped = f.dropped,
            !.spawned = @ \o [i \in 1 .. Len(sp.stars) - Len(e.stars) |->
                                sp.stars[Len(e.stars) + i].id]]

\* what the filter starts from
Unfiltered(e) ==
  [stars |-> <<>>, score |-> e.score, lastTouchX |-> e.lastTouchX,
   lastTouchY |-> e.lastTouchY, drawn |-> {}, dropped |-> e.dropped]

\* the rest of an iteration, after the sample m and the spawn result sp
Filtered(v, e, camActive, m, sp) ==
  CHOOSE r \in {Iterated(e, m, sp, f) :
                  f \in {FilterStars(v, sp.stars, Unfiltered(e), camActive, m.sample)}} : TRUE

GameLoop(v, e, camActive, vid, clock, xy) ==
  IF ~e.isPlaying THEN e
  ELSE CHOOSE r \in {Filtered(v, e, camActive, ms[1], ms[2]) :
                       ms \in {DetectMotion(v, camActive, vid, e.prevFrame)}
                                \X {SpawnStar(v, e.stars, e.lastStarTime, clock, xy)}} : TRUE

StartGuard(v, e) == IF v = Fallback THEN ~e.isPlaying ELSE TRUE

\* start(): reset, then the first iteration of the loop, synchronously
Start(v, e, camActive, vid, clock, xy) ==
  IF ~StartGuard(v, e) THEN e
  ELSE GameLoop(v, [e EXCEPT !.isPlaying = TRUE, !.score = 0, !.stars = <<>>, !.collections = 0],
                camActive, vid, clock, xy)

InitFails(outcome) == outcome # "ok"

\* mutant: cameraActive set before video.play() is awaited
CameraActiveAfter_BeforePlay(v, outcome) == v = Fallback /\ outcome \in {"ok", "playrejected"}

\* cameraActive when init() returns
CameraActiveAfter(v, outcome) == v = Fallback /\ outcome = "ok"

\* init(), by the outcome of the camera acquisition
RegistersStart(v, outcome) == IF v = Fallback THEN TRUE ELSE ~InitFails(outcome)

\* the video shows frames once a stream plays in it
Streams(v, camActive) == v = Camera \/ camActive

EngineInit(outcome) ==
  /\ ~initDone
  /\ initDone' = TRUE
  /\ cameraActive' = CameraActiveAfter(variant, outcome)
  /\ startListeners' = IF RegistersStart(variant, outcome) THEN startListeners + 1 ELSE startListeners
  /\ UNCHANGED <<variant, isPlaying, score, stars, lastStarTime, lastTouchX, lastTouchY,
                 prevFrame, raf, now, video, events, collections, spawned, drawn, dropped,
                 stopAsked, probe, touches, pointed, app>>

\* The engine looks at the clock and at the video only inside gameLoop(), so
\* the clock's advance d since the last look and the frame f the video shows
\* are drawn where an iteration runs; now and video keep what it saw.  xy is
\* the spot Math.random() offers the star the iteration spawns, if it spawns
\* one (ss is the collection it finds).  Input events are: a change of the
\* frame (but not a stream that begins with the dark frame), a star put
\* elsewhere than at Home, a look at the clock that is not OnTime, and a
\* pointer event.
Sees(d, f, xy, ss) ==
  /\ f # NotReady => Streams(variant, cameraActive)
  /\ xy # Home => MaySpawn(variant, ss, lastStarTime, now + d)
  /\ now' = now + d
  /\ video' = f
  /\ touches' = <<>>
  /\ events' = events + (IF f = video \/ (video = NotReady /\ f = "dark") THEN 0 ELSE 1) + (IF xy = Home THEN 0 ELSE 1)
                      + (IF d = OnTime(variant) THEN 0 ELSE 1)
  /\ Allowed(variant, events', now')

\* a click on the start button
StartClick(d, f, xy) ==
  /\ startListeners > 0
  /\ IF StartGuard(variant, Engine)
     THEN /\ raf < MaxRaf
          /\ Sees(d, f, xy, <<>>)
          /\ pointed' = 0
          /\ \E e \in {Start(variant, Engine, cameraActive, f, now + d, xy)} : Becomes(e)
     ELSE /\ Becomes(Start(variant, Engine, cameraActive, f, now, xy))
          /\ UNCHANGED <<now, video, events, touches, pointed>>
  /\ UNCHANGED <<variant, initDone, startListeners, cameraActive, stopAsked, probe, app>>

\* mutant: a position is recorded only while none is pending
HandleInteraction_FirstKept(playing, tx, ty, p) ==
  IF playing /\ tx = NoTouch THEN p ELSE <<tx, ty>>

\* mutant: the position recorded whether the game is playing or not
HandleInteraction_Always(playing, tx, ty, p) == p

\* handleInteraction: the position of the event replaces the pending one
\* while the game is playing
HandleInteraction(playing, tx, ty, p) ==
  IF playing THEN p ELSE <<tx, ty>>

\* touchstart, touchmove, mousedown, or mousemove with a button down
Interaction(p) ==
  /\ variant = Fallback
  /\ events' = events + 1
  /\ Allowed(variant, events', now)
  /\ lastTouchX' = HandleInteraction(isPlaying, lastTouchX, lastTouchY, p)[1]
  /\ lastTouchY' = HandleInteraction(isPlaying, lastTouchX, lastTouchY, p)[2]
  /\ touches' = IF isPlaying THEN Append(touches, p) ELSE touches
  /\ pointed' = IF isPlaying THEN pointed + 1 ELSE pointed
  /\ UNCHANGED <<variant, initDone, startListeners, cameraActive, isPlaying, score,
                 stars, lastStarTime, prevFrame, raf, now, video, collections, spawned,
                 drawn, dropped, stopAsked, probe, app>>

\* the display refresh runs one pending gameLoop callback
Frame(d, f, xy) ==
  /\ raf > 0
  /\ Sees(d, f, xy, stars)
  /\ \E e \in {GameLoop(variant, [Engine EXCEPT !.raf = @ - 1], cameraActive, f, now + d, xy)} :
        Becomes(e)
  /\ UNCHANGED <<variant, initDone, startListeners, cameraActive, stopAsked, probe, pointed,
                 app>>

\* the state after the constructor
Constructed ==
  /\ variant \in Variants
  /\ initDone = FALSE
  /\ startListeners = 0
  /\ cameraActive = FALSE
  /\ isPlaying = FALSE
  /\ score = 0
  /\ stars = <<>>
  /\ lastStarTime = 0
  /\ lastTouchX = NoTouch
  /\ lastTouchY = NoTouch
  /\ prevFrame = Null
  /\ raf = 0
  /\ now = Epoch
  /\ video = NotReady
  /\ events = 0
  /\ collections = 0
  /\ spawned = <<>>
  /\ drawn = {}
  /\ dropped = {}
  /\ stopAsked = FALSE
  /\ touches = <<>>
  /\ pointed = 0
  /\ app = Mounted

\* no comparison of frames is under way outside MotionSpec
Idle == [prev |-> Null, cur |-> "clear", t1 |-> 0, t2 |-> 0, done |-> FALSE,
         low |-> {}, high |-> {}]

Init == Constructed /\ probe = Idle

Next ==
  \/ \E outcome \in InitOutcomes : EngineInit(outcome)
  \/ \E d \in ClockSteps(variant), f \in Frames \cup {NotReady}, xy \in StarSpots :
        StartClick(d, f, xy)
  \/ \E p \in PointerSpots : Interaction(p)
  \/ \E d \in ClockSteps(variant), f \in Frames \cup {NotReady}, xy \in StarSpots :
        Frame(d, f, xy)

Spec == Init /\ [][Next]_vars

\* --------------------------- the engine while the display keeps refreshing
\* The browser runs a pending requestAnimationFrame callback at the next
\* display refresh.
Refresh ==
  \E d \in ClockSteps(variant), f \in Frames \cup {NotReady}, xy \in StarSpots : Frame(d, f, xy)

LiveSpec == Init /\ [][Next]_vars /\ WF_vars(Refresh)

\* ------------------------------------ the engine when asked to stop
\* The design has the game stopped from outside the loop (leaving the game
\* screen).  GameEngine has no method, listener or flag for it: the request
\* changes no field of the engine.
StopRequested ==
  /\ isPlaying
  /\ ~stopAsked
  /\ stopAsked' = TRUE
  /\ UNCHANGED <<variant, initDone, startListeners, cameraActive, isPlaying, score,
                 stars, lastStarTime, lastTouchX, lastTouchY, prevFrame, raf, now, video,
                 events, collections, spawned, drawn, dropped, probe, touches, pointed,
                 app>>

NextStop == Next \/ StopRequested

StopSpec == Init /\ [][NextStop]_vars

\* ------------------------------------------- the engine under any clock
\* Date.now() is the wall clock: between two looks it may also stand still
\* (two callbacks in one millisecond) or go back (the clock is set).  Here
\* the video delivers no frame; stars are collected through the pointer.
ErraticSteps(v) == ClockSteps(v) \cup {-SpawnInterval(v), 0}

NextClock ==
  \/ \E outcome \in InitOutcomes : EngineInit(outcome)
  \/ \E d \in ErraticSteps(variant), xy \in StarSpots : StartClick(d, NotReady, xy)
  \/ \E p \in PointerSpots : Interaction(p)
  \/ \E d \in ErraticSteps(variant), xy \in StarSpots : Frame(d, NotReady, xy)

ClockSpec == Init /\ [][NextClock]_vars

\* ---------------------------------- the comparison of two frames, alone
\* The loop of detectMotion() over the cells, for any two frames and with the
\* threshold as a parameter: prev and cur are compared under two thresholds.
Thresholds == {0, GESTURE_THRESHOLD(Fallback), GESTURE_THRESHOLD(Camera), 300, 310, 350}
ProbeFrames == Frames \cup {"clear"}

CellsFlagged(prev, cur, threshold) == {c \in Cells : MotionMap(prev, cur, threshold)[c] = 1}

InitMotion ==
  /\ Constructed
  /\ probe \in [prev : ProbeFrames \cup {Null}, cur : ProbeFrames,
                 t1 : Thresholds, t2 : Thresholds, done : {FALSE}, low : {{}}, high : {{}}]

Compare ==
  /\ ~probe.done
  /\ probe' = [probe EXCEPT !.done = TRUE,
                            !.low = CellsFlagged(probe.prev, probe.cur, probe.t1),
                            !.high = CellsFlagged(probe.prev, probe.cur, probe.t2)]
  /\ UNCHANGED <<variant, initDone, startListeners, cameraActive, isPlaying, score,
                 stars, lastStarTime, lastTouchX, lastTouchY, prevFrame, raf, now, video,
                 events, collections, spawned, drawn, dropped, stopAsked, touches, pointed,
                 app>>

NextMotion == Compare

MotionSpec == InitMotion /\ [][NextMotion]_vars

\* ------------------------------------------------------------ one cell
\* The test of one cell of detectMotion(), run on pairs of pixels (red, green,
\* blue, alpha) whose channel differences add up to values below, at and
\* above both thresholds.
Levels == {0, 15, 20, 21, 35, 36, 40, 41, 255}
Alphas == {0, 255}
Quads == (Levels \X Levels \X Levels) \X Alphas
Pixel(quad) == <<quad[1][1], quad[1][2], quad[1][3], quad[2]>>
Backgrounds == {<<0, 0, 0>>, <<20, 20, 0>>, <<255, 255, 255>>} \X Alphas

InitPixel ==
  /\ Constructed
  /\ probe \in [cur : {Pixel(quad) : quad \in Quads}, prev : {Pixel(quad) : quad \in Backgrounds},
                 done : {FALSE}, flag : {FALSE}]

TestCell ==
  /\ ~probe.done
  /\ probe' = [probe EXCEPT !.done = TRUE,
                            !.flag = Flagged(probe.cur, probe.prev, GESTURE_THRESHOLD(variant))]
  /\ UNCHANGED <<variant, initDone, startListeners, cameraActive, isPlaying, score,
                 stars, lastStarTime, lastTouchX, lastTouchY, prevFrame, raf, now, video,
                 events, collections, spawned, drawn, dropped, stopAsked, touches, pointed,
                 app>>

NextPixel == TestCell

PixelSpec == InitPixel /\ [][NextPixel]_vars

\* ------------------------------------------- the gesture game's handlers
\* everything but the gesture game
page == <<variant, initDone, startListeners, cameraActive, isPlaying, score,
          stars, lastStarTime, lastTouchX, lastTouchY, prevFrame, raf, now, video, events,
          collections, spawned, drawn, dropped, stopAsked, probe, touches, pointed>>

\* a click on the start button, which is rendered while the state is IDLE
StartGameClick ==
  /\ app.gameState = "IDLE"
  /\ Len(app.calls) < MaxGames
  /\ app' = StartGame(app)
  /\ UNCHANGED page

\* getUserMedia and video.play() have resolved: call i asks for a session
MediaReady(i) ==
  /\ app.calls[i].at = "media"
  /\ app' = [app EXCEPT !.calls[i] = [at |-> "connect", session |-> "pending"]]
  /\ UNCHANGED page

\* getUserMedia or video.play() has rejected
MediaFails(i) ==
  /\ app.calls[i].at = "media"
  /\ app' = Caught(app, i)
  /\ UNCHANGED page

\* the session promise of call i has rejected
ConnectFails(i) ==
  /\ app.calls[i].at = "connect"
  /\ app.calls[i].session = "pending"
  /\ app' = Caught([app EXCEPT !.calls[i].session = "closed"], i)
  /\ UNCHANGED page

OnOpen(i) ==
  /\ app.calls[i].session = "pending"
  /\ app' = [app EXCEPT !.calls[i].session = "open",
                        !.gameState = "PLAYING",
                        !.frameInterval = TRUE]
  /\ UNCHANGED page

\* the session promise of call i has resolved, after the session opened
Resolved(i) ==
  /\ app.calls[i].at = "connect"
  /\ app.calls[i].session \in {"open", "closing", "closed"}
  /\ app' = [app EXCEPT !.sessionRef = i,
                        !.calls[i].at = "returned"]
  /\ UNCHANGED page

OnError(i) ==
  /\ app.calls[i].session = "open"
  /\ app' = StopGame([app EXCEPT !.error = TRUE])
  /\ UNCHANGED page

\* the session of call i has closed, by close() or from the server's side
OnClose(i) ==
  /\ app.calls[i].session \in {"open", "closing"}
  /\ app' = [app EXCEPT !.calls[i].session = "closed",
                        !.gameState = "IDLE"]
  /\ UNCHANGED page

\* a click on the manual skip button, which is rendered while PLAYING
NextClick ==
  /\ app.gameState = "PLAYING"
  /\ app' = HandleNext(app)
  /\ UNCHANGED page

\* A click on the replay button, which is rendered while FINISHED.  No handler
\* leaves the state FINISHED (see C31), so the click is not a step of NextApp.
Replay ==
  /\ app.gameState = "FINISHED"
  /\ app' = [app EXCEPT !.gameState = "IDLE"]
  /\ UNCHANGED page

\* the calls of startGame() so far
Calls == 1 .. Len(app.calls)

NextApp ==
  \/ StartGameClick
  \/ NextClick
  \/ \E i \in Calls : MediaReady(i)
  \/ \E i \in Calls : MediaFails(i)
  \/ \E i \in Calls : ConnectFails(i)
  \/ \E i \in Calls : OnOpen(i)
  \/ \E i \in Calls : Resolved(i)
  \/ \E i \in Calls : OnError(i)
  \/ \E i \in Calls : OnClose(i)

AppSpec == Init /\ [][NextApp]_vars

\* ------------------------------------------------------------- claims
Uncollected(ss) == {i \in 1 .. Len(ss) : ~ss[i].collected}

\* the step ran an iteration of gameLoop(): every iteration looks at the clock
LoopRan == now' # now

\* the stars the iteration of this step collected through the test src
CollectedBy(src) == {i \in NewlyCollected(stars') : stars'[i].source = src}

\* C1: in every reachable state the stars not yet collected number at most
\* K, with K = 6 in the engine with fallback and K = 5 in the camera-only one.
C1_UncollectedAtMostK ==
  /\ variant = Fallback => Cardinality(Uncollected(stars)) <= 6
  /\ variant = Camera => Cardinality(Uncollected(stars)) <= 5

\* K uncollected stars, and the last iteration's spawn attempt, made more than
\* the spawn interval after the last spawn, added none
C1_Witness ==
  /\ variant = Fallback
  /\ Cardinality(Uncollected(stars)) = 6
  /\ now - lastStarTime > SpawnInterval(variant)

\* C2: a star adds to the score at most once over its life: it has awarded
\* once exactly when it is collected, whatever hit tests match it afterwards.
C2_AwardsAtMostOnce ==
  \A i \in 1 .. Len(stars) :
    /\ stars[i].awards <= 1
    /\ stars[i].collected <=> stars[i].awards = 1

\* a star collected in an earlier iteration, matched again by a hit test in
\* the last one
C2_Witness ==
  \E i \in 1 .. Len(stars) :
    /\ stars[i].collected
    /\ stars[i].scale.burst >= 2
    /\ stars[i].hit # "none"
    /\ stars[i].awards = 1

\* C3: the score is 10 times the number of stars that went from uncollected
\* to collected since start(), and is never negative.
C3_ScoreCountsCollections ==
  /\ score = 10 * collections
  /\ score >= 0

\* a star was collected, burst and was dropped from the collection, and stars
\* spawned since are not collected: the score still counts the dropped one
C3_Witness ==
  /\ score > 0
  /\ collections > Cardinality({i \in 1 .. Len(stars) : stars[i].collected})
  /\ Uncollected(stars) # {}

\* C4: the iteration in which the pointer position collects a star clears the
\* position, and while the position is clear no iteration has a hit test
\* matched by the pointer.
C4_PointerOneShot ==
  [][/\ LoopRan /\ CollectedBy("pointer") # {}
        => lastTouchX' = NoTouch /\ lastTouchY' = NoTouch
     /\ LoopRan /\ lastTouchX = NoTouch
        => \A i \in 1 .. Len(stars') : stars'[i].hit # "pointer"]_vars

\* a star collected by the pointer an iteration ago, the position clear since,
\* and an uncollected star at the same spot, tested in the last iteration
C4_Witness ==
  /\ lastTouchX = NoTouch
  /\ \E i, j \in 1 .. Len(stars) :
        /\ stars[i].source = "pointer"
        /\ stars[i].scale.burst >= 2
        /\ stars[i].hit = "none"
        /\ ~stars[j].collected
        /\ stars[j].x = stars[i].x /\ stars[j].y = stars[i].y

\* C5: an iteration that collects stars through camera motion only, with a
\* pointer position recorded outside the radius of each of them, leaves the
\* position as it was.
C5_PointerKeptOnCameraCollection ==
  [][/\ LoopRan
     /\ lastTouchX # NoTouch
     /\ CollectedBy("camera") # {}
     /\ CollectedBy("pointer") = {}
     /\ \A i \in CollectedBy("camera") : ~PointerHit(variant, stars'[i], lastTouchX, lastTouchY)
     => lastTouchX' = lastTouchX /\ lastTouchY' = lastTouchY]_vars

\* the outcomes of init() in which the camera was not acquired
Failures == {o \in InitOutcomes : InitFails(o)}

\* C6: in the engine with fallback, init() with a failed camera acquisition
\* leaves cameraActive false, and once init() has left it false no step
\* (start, iteration, pointer event) sets it.
C6_FallbackStays ==
  [][variant = Fallback
     => /\ \A o \in Failures : EngineInit(o) => ~cameraActive'
        /\ initDone /\ ~cameraActive => ~cameraActive']_vars

\* a session played in fallback mode: started, iterations run, a pointer
\* position recorded
C6_Witness ==
  /\ variant = Fallback
  /\ initDone /\ ~cameraActive
  /\ isPlaying
  /\ Len(stars) >= 2
  /\ lastTouchX # NoTouch

\* C7: on every failure outcome init() ends with the camera inactive and the
\* start action registered exactly once, in both copies of the engine.
C7_StartRegisteredOnFailure ==
  [][\A o \in Failures :
        EngineInit(o) => ~cameraActive' /\ startListeners' = 1]_vars

\* C8: in the engine with fallback, an iteration that finds the camera
\* inactive or the video without a frame gets the empty sample, keeps
\* prevFrame, collects no star through camera motion, and leaves a callback
\* scheduled.
C8_EmptySampleWhenNotReady ==
  [][variant = Fallback /\ LoopRan /\ (~cameraActive \/ video' = NotReady)
     => /\ DetectMotion(variant, cameraActive, video', prevFrame).sample = EmptySample
        /\ EmptySample.width = 0 /\ EmptySample.height = 0
        /\ prevFrame' = prevFrame
        /\ CollectedBy("camera") = {}
        /\ raf' > 0]_vars

\* the camera is active and has delivered frames, the last iteration found
\* the video without one, and ran: it spawned or grew stars
C8_Witness ==
  /\ variant = Fallback
  /\ cameraActive
  /\ video = NotReady
  /\ prevFrame # Null
  /\ isPlaying /\ raf > 0
  /\ \E i \in 1 .. Len(stars) : stars[i].scale.grow >= 2

\* the cells detectMotion() flags between frames prev and cur
FlaggedCells(v, prev, cur) == CellsFlagged(prev, cur, GESTURE_THRESHOLD(v))

\* C9: two consecutive samples with the same pixel values flag no cell, and
\* the iteration that takes the second one collects no star through camera
\* motion.
C9_NoMotionOnIdenticalFrames ==
  [][LoopRan /\ prevFrame # Null /\ Pixels(prevFrame') = Pixels(prevFrame)
     => /\ FlaggedCells(variant, prevFrame, prevFrame') = {}
        /\ CollectedBy("camera") = {}]_vars

\* The camera-only engine samples in every iteration.  A star tested twice,
\* the second time against the vivid frame, and not collected: the sample
\* before was the vivid frame too (against any other every cell is flagged).
C9_Witness ==
  /\ variant = Camera
  /\ prevFrame = "vivid"
  /\ \E i \in 1 .. Len(stars) : ~stars[i].collected /\ stars[i].scale.grow >= 2

\* C10: for two frames and thresholds t1 <= t2, every cell flagged under t2
\* is flagged under t1.
C10_ThresholdMonotone ==
  probe.done /\ probe.t1 <= probe.t2 => probe.high \subseteq probe.low

\* two frames and thresholds t1 < t2 between which some cells stop being
\* flagged and others stay flagged
C10_Witness ==
  /\ probe.done
  /\ probe.t1 < probe.t2
  /\ probe.high # {}
  /\ probe.high # probe.low

\* the uncollected stars within the hit radius of the recorded pointer position
InReach(ss, tx, ty) ==
  {i \in 1 .. Len(ss) : ~ss[i].collected /\ PointerHit(variant, ss[i], tx, ty)}

\* C11: an iteration that starts with a pointer position recorded and an
\* uncollected star within its radius collects one star within the radius
\* through the pointer, adds 10 to the score for it, and clears the position.
C11_PointerInReachCollects ==
  [][LoopRan /\ isPlaying /\ lastTouchX # NoTouch /\ InReach(stars, lastTouchX, lastTouchY) # {}
     => /\ \E j \in CollectedBy("pointer") :
              PointerHit(variant, stars'[j], lastTouchX, lastTouchY)
        /\ Cardinality(CollectedBy("pointer")) = 1
        /\ score' = score + 10 * Cardinality(NewlyCollected(stars'))
        /\ lastTouchX' = NoTouch /\ lastTouchY' = NoTouch]_vars

\* the minimum interval between two spawns, as the claims state it
MinGap == IF variant = Fallback THEN 1000 ELSE 1500

\* the id of the star spawned last
LastSpawned == spawned[Len(spawned)]

\* C12: the ids (spawn times) of two stars spawned one after the other differ
\* by more than the minimum interval; a step adds at most one star; and a
\* look at the clock within the interval of the last spawn adds none.
C12_SpawnsApart ==
  [][/\ \A i \in 1 .. Len(spawned') - 1 : spawned'[i + 1] - spawned'[i] > MinGap
     /\ Len(spawned') <= Len(spawned) + 1
     /\ spawned # <<>> /\ now' - LastSpawned <= MinGap => spawned' = spawned]_vars

\* after two spawns the last iteration looked at the clock within the interval
\* of the last spawn, with room for more stars, and spawned none
C12_Witness ==
  /\ Len(spawned) >= 2
  /\ now > LastSpawned
  /\ now - LastSpawned <= MinGap
  /\ Len(stars) < 5

Ids(ss) == {ss[i].id : i \in 1 .. Len(ss)}

\* the step is an iteration run by the refresh callback (not by start())
CallbackRan == LoopRan /\ raf' = raf

\* C13: no star in the collection has a scale above the ceiling; an iteration
\* keeps a collected star exactly when the scale its increment gives does not
\* exceed the ceiling; a dropped star is never in the collection again, and is
\* not drawn by a later iteration.
C13_DroppedAtCeiling ==
  [][/\ \A i \in 1 .. Len(stars) : ~ScaleAboveCeiling(variant, stars[i].scale)
     /\ CallbackRan =>
          /\ \A i \in 1 .. Len(stars) :
                stars[i].collected =>
                  (stars[i].id \in Ids(stars')
                     <=> ~ScaleAboveCeiling(variant, [stars[i].scale EXCEPT !.burst = @ + 1]))
          /\ dropped \cap drawn' = {}
     /\ dropped' \cap Ids(stars') = {}]_vars

\* a star has been dropped, and an iteration after that one drew other stars
C13_Witness ==
  /\ dropped # {}
  /\ drawn # {}
  /\ dropped \cap drawn = {}

\* the step is a click on the start button
Clicked ==
  \E d \in ClockSteps(variant), f \in Frames \cup {NotReady}, xy \in StarSpots : StartClick(d, f, xy)

\* C14: at most one iteration of the loop is scheduled at any time, and a
\* click on the start button while playing leaves score and stars alone.
C14_LoopNotReentrant ==
  [][/\ raf' <= 1
     /\ isPlaying /\ Clicked => score' = score /\ stars' = stars]_vars

\* C15: once the game has been asked to stop, no iteration of the loop runs
\* or is scheduled, the camera stream is released, and the score keeps its
\* value.
C15_StopEndsLoop ==
  [][stopAsked' =>
       /\ raf' = 0
       /\ ~Streams(variant, cameraActive')
       /\ stopAsked => ~LoopRan /\ score' = score]_vars

\* the bound on the session leaves room for one more iteration
Room == Allowed(variant, events, now + OnTime(variant))

\* C16: an iteration run by the refresh callback leaves as many callbacks
\* scheduled as it found (it used one and scheduled one), start() schedules
\* one, a playing engine always has one scheduled, and as long as the
\* refresh callback fires iterations go on running: every iteration reads a
\* later clock, and the clock reaches the end of the session.
C16_LoopGoesOn ==
  /\ [][LoopRan => raf' = IF Clicked THEN raf + 1 ELSE raf]_vars
  /\ [](isPlaying => raf >= 1)
  /\ (isPlaying /\ Room) ~> ~Room

\* the loop has run for the whole session with stars spawned, collected and
\* dropped on the way, and is still scheduled
C16_Witness ==
  /\ isPlaying
  /\ raf >= 1
  /\ ~Room
  /\ dropped # {}
  /\ score > 0
  /\ stars # <<>>

\* the position of the last pointer event recorded since the last iteration
LastTouch == touches[Len(touches)]

\* C17: after pointer events between two iterations the pending position is
\* that of the last event, the next hit test collects by pointer only stars
\* within the radius of that position, and an event at the position of the
\* event before it changes nothing in the engine.
C17_LastPointerWins ==
  [][/\ touches' # <<>> => <<lastTouchX', lastTouchY'>> = touches'[Len(touches')]
     /\ LoopRan /\ touches # <<>> =>
          \A j \in CollectedBy("pointer") :
             PointerHit(variant, stars'[j], LastTouch[1], LastTouch[2])
     /\ touches # <<>> /\ touches' = Append(touches, LastTouch) =>
          /\ lastTouchX' = lastTouchX
          /\ lastTouchY' = lastTouchY
          /\ UNCHANGED <<isPlaying, score, stars, lastStarTime, prevFrame, raf,
                         cameraActive>>]_vars

\* three events before an iteration that is scheduled, the last two at one
\* place: the first within the radius of an uncollected star, the last not
C17_Witness ==
  /\ raf > 0
  /\ Len(touches) = 3
  /\ touches[2] = touches[3]
  /\ \E i \in 1 .. Len(stars) :
        /\ ~stars[i].collected
        /\ PointerHit(variant, stars[i], touches[1][1], touches[1][2])
        /\ ~PointerHit(variant, stars[i], lastTouchX, lastTouchY)

\* the motion sample of the iteration this step runs
Sampled == DetectMotion(variant, cameraActive, video', prevFrame).sample

\* the flagged cells around star j as the iteration of this step counts them
FlaggedAround(j) == MotionHits(variant, stars'[j], Sampled)

\* the cells of the square the camera test walks over
Neighbourhood == (2 * HitCells(variant) + 1) * (2 * HitCells(variant) + 1)

Tested == {j \in 1 .. Len(stars') : ~stars'[j].collected \/ j \in NewlyCollected(stars')}

\* the pending pointer position when the iteration of this step tests star j:
\* a collection earlier in the same pass has cleared it
TouchAt(j) ==
  IF \E k \in NewlyCollected(stars') : k < j
  THEN <<NoTouch, NoTouch>>
  ELSE <<lastTouchX, lastTouchY>>

PointerMatches(j) == PointerHit(variant, stars'[j], TouchAt(j)[1], TouchAt(j)[2])

CameraMatches(j) == CameraHit(variant, stars'[j], cameraActive, Sampled)

\* C19: in the engine with fallback an uncollected star is collected in an
\* iteration exactly when the pointer pending at its test is within the
\* radius or camera motion around it exceeds the threshold; the pointer is
\* the source whenever it matches; the star adds to the score once, and the
\* score rises by 10 for each star collected, also when both tests match.
C19_OneSourceSuffices ==
  [][LoopRan /\ variant = Fallback =>
       /\ \A j \in Tested :
             /\ j \in NewlyCollected(stars') <=> PointerMatches(j) \/ CameraMatches(j)
             /\ stars'[j].awards = IF PointerMatches(j) \/ CameraMatches(j) THEN 1 ELSE 0
             /\ stars'[j].hit = IF PointerMatches(j) THEN "pointer"
                                ELSE IF CameraMatches(j) THEN "camera" ELSE "none"
             /\ j \in NewlyCollected(stars') => stars'[j].source = stars'[j].hit
       /\ score' = score + 10 * Cardinality(NewlyCollected(stars'))]_vars

\* two stars at one place collected in one iteration, the first by the
\* pointer and the second by the camera: both tests matched the first star,
\* and it added to the score once
C19_Witness ==
  /\ variant = Fallback
  /\ \E i, j \in NewlyCollected(stars) :
        /\ i < j
        /\ stars[i].x = stars[j].x
        /\ stars[i].y = stars[j].y
        /\ stars[i].source = "pointer"
        /\ stars[j].source = "camera"
        /\ stars[i].awards = 1
        /\ score = 10 * collections

\* C20: the ids of the stars spawned since the page loaded are pairwise
\* distinct, each greater than the id spawned before it by more than the
\* minimum spawn interval, and the stars of the array carry distinct ids among
\* them, whether the clock advances, stands still or goes back.
C20_IdsDistinct ==
  /\ \A i, j \in 1 .. Len(spawned) : i # j => spawned[i] # spawned[j]
  /\ \A i \in 2 .. Len(spawned) : spawned[i] > spawned[i - 1] + MinGap
  /\ \A i, j \in 1 .. Len(stars) : i # j => stars[i].id # stars[j].id
  /\ Ids(stars) \subseteq {spawned[i] : i \in 1 .. Len(spawned)}

\* the loop has read a clock that went back behind the id of the last of
\* three stars, two of which are still in the array
C20_Witness ==
  /\ isPlaying
  /\ Len(spawned) >= 3
  /\ now < LastSpawned
  /\ Len(stars) >= 2

\* the stars tested while uncollected by the iteration of this step that are
\* within the radius of the pointer position pending before it
Reached == {j \in Tested : PointerHit(variant, stars'[j], lastTouchX, lastTouchY)}

\* the first of them in the order of the array
FirstReached == {j \in Reached : \A k \in Reached : j <= k}

\* the camera is not in use: fallback mode of the engine with fallback
FallbackMode == variant = Fallback /\ ~cameraActive

\* C21: an iteration collects by the pointer no star but the first of those
\* within the radius of the pending position, and with the camera not in use
\* it collects exactly that one, the score rises by at most 10 in the
\* iteration, and the score never exceeds 10 times the number of pointer
\* events recorded since start().
C21_OnePointerOneStar ==
  [][/\ LoopRan => CollectedBy("pointer") \subseteq FirstReached
     /\ LoopRan /\ FallbackMode =>
          /\ NewlyCollected(stars') = FirstReached
          /\ score' <= score + 10
     /\ FallbackMode => score' <= 10 * pointed']_vars

\* with the camera not in use, two uncollected stars were within the radius
\* of the pending position: the first was collected, the second was not
C21_Witness ==
  /\ FallbackMode
  /\ pointed >= 1
  /\ score = 10
  /\ \E i, j \in 1 .. Len(stars) :
        /\ i < j
        /\ i \in NewlyCollected(stars)
        /\ stars[i].source = "pointer"
        /\ ~stars[j].collected
        /\ stars[j].x = stars[i].x
        /\ stars[j].y = stars[i].y
        /\ stars[j].hit = "none"

\* no frame of the camera has been sampled yet: prevFrame is unset, or holds
\* the blank canvas sampled while the video had no frame
NoFrameSampled == prevFrame \in {Null, "clear"}

\* the iteration of this step samples a frame the camera has delivered
SamplesFrame == LoopRan /\ isPlaying' /\ Streams(variant, cameraActive) /\ video' # NotReady

\* C22: the first sample of a frame of the camera flags no cell and collects
\* no star by camera motion, and every later sample flags the cells that
\* differ from the frame of the camera sampled before it.
C22_FirstSampleAllClear ==
  [][SamplesFrame =>
       /\ NoFrameSampled =>
            /\ \A c \in Cells : Sampled.motionMap[c] = 0
            /\ CollectedBy("camera") = {}
       /\ ~NoFrameSampled =>
            Sampled.motionMap = MotionMap(prevFrame, video', GESTURE_THRESHOLD(variant))
       /\ prevFrame' = video']_vars

\* the distance of two channel values
Apart(a, b) == IF a >= b THEN a - b ELSE b - a

\* the sum of the distances of the red, green and blue channels of the two
\* pixels of the probe
ColourDistance ==
  Apart(probe.cur[1], probe.prev[1]) + Apart(probe.cur[2], probe.prev[2])
    + Apart(probe.cur[3], probe.prev[3])

\* C23: a cell is flagged exactly when the distances of its red, green and
\* blue channels add up to more than 35 (engine with fallback) or 40
\* (camera-only engine), whatever the alpha channels are.
C23_FlaggedAboveThreshold ==
  probe.done =>
    (probe.flag <=> ColourDistance > (IF variant = Fallback THEN 35 ELSE 40))

\* a cell whose channels differ by exactly the threshold, alpha channels
\* differing too, was tested and not flagged
C23_Witness ==
  /\ probe.done
  /\ ~probe.flag
  /\ ColourDistance = (IF variant = Fallback THEN 35 ELSE 40)
  /\ probe.cur[4] # probe.prev[4]
  /\ probe.cur[1] < probe.prev[1]

\* the scale star j had when the iteration of this step tested it
ScaleAtTest(j) == [stars'[j].scale EXCEPT !.burst = 0]

\* C24: in the engine with fallback a star whose scale is below 1 when it is
\* tested, the star spawned in the same iteration included, is collected
\* exactly when the pointer or the camera test matches it, and a collected
\* star never fades in further.
C24_HitTestableFromSpawn ==
  [][LoopRan /\ variant = Fallback =>
       /\ \A j \in Tested :
             ScaleBelowOne(variant, ScaleAtTest(j)) =>
               (j \in NewlyCollected(stars') <=> PointerMatches(j) \/ CameraMatches(j))
       /\ \A i \in 1 .. Len(stars), j \in 1 .. Len(stars') :
             stars[i].collected /\ stars'[j].id = stars[i].id =>
               stars'[j].scale.grow = stars[i].scale.grow]_vars

\* a star collected in the iteration that spawned it, after one fade-in step
C24_Witness ==
  /\ variant = Fallback
  /\ \E i \in NewlyCollected(stars) :
        /\ stars[i].id = now
        /\ stars[i].scale.grow = 1
        /\ ScaleBelowOne(variant, [stars[i].scale EXCEPT !.burst = 0])

\* the most iterations a collected star stays in the array, the one that
\* collects it included
BurstFrames == IF variant = Fallback THEN 20 ELSE 15

\* C25: every iteration adds one burst step to each collected star of the
\* array or removes it, whatever the inputs of the iteration; a star is gone
\* after at most 20 burst steps (15 in the camera-only engine), the first of
\* them made by the iteration that collects it; a collected star is never
\* uncollected again and its scale never goes down.
C25_CollectedStarExpires ==
  [][/\ \A j \in 1 .. Len(stars') :
          stars'[j].collected => stars'[j].scale.burst \in 1 .. BurstFrames - 1
     /\ \A i \in 1 .. Len(stars), j \in 1 .. Len(stars') :
          stars'[j].id = stars[i].id =>
            /\ stars[i].collected => stars'[j].collected
            /\ stars'[j].scale.grow >= stars[i].scale.grow
            /\ stars'[j].scale.burst >= stars[i].scale.burst
            /\ LoopRan /\ stars[i].collected =>
                 stars'[j].scale.burst = stars[i].scale.burst + 1
     /\ \A i \in 1 .. Len(stars) :
          /\ stars[i].collected
          /\ ScaleAboveCeiling(variant, [stars[i].scale EXCEPT !.burst = @ + 1])
          /\ LoopRan
          => stars[i].id \notin Ids(stars')]_vars

\* a collected star is in the array for the last time: the next iteration
\* removes it, and one is scheduled
C25_Witness ==
  /\ raf > 0
  /\ \E i \in 1 .. Len(stars) :
        /\ stars[i].collected
        /\ ScaleAboveCeiling(variant, [stars[i].scale EXCEPT !.burst = @ + 1])

\* the collected stars of the array within the radius of the pending pointer
Bursting == {i \in 1 .. Len(stars) : stars[i].collected
                                        /\ PointerHit(variant, stars[i], lastTouchX, lastTouchY)}

\* C26: in the engine with fallback an iteration that collects no star
\* leaves the pending pointer and the score as they were, also with
\* collected stars within the radius; such a star keeps its award and its
\* source; and the first uncollected star within the radius is collected by
\* the pointer when no star before it is collected in the same iteration.
C26_CollectedStarIgnored ==
  [][LoopRan /\ variant = Fallback =>
       /\ NewlyCollected(stars') = {} =>
            /\ lastTouchX' = lastTouchX
            /\ lastTouchY' = lastTouchY
            /\ score' = score
       /\ \A i \in Bursting, j \in 1 .. Len(stars') :
            stars'[j].id = stars[i].id =>
              /\ stars'[j].awards = stars[i].awards
              /\ stars'[j].source = stars[i].source
       /\ \A j \in FirstReached :
            (\A k \in NewlyCollected(stars') : k >= j) => j \in CollectedBy("pointer")]_vars

\* the last iteration tested a collected star within the radius of the
\* pending pointer: the pointer test matched, and the pointer is still pending
C26_Witness ==
  /\ variant = Fallback
  /\ lastTouchX # NoTouch
  /\ touches = <<>>
  /\ \E i \in Bursting :
        /\ stars[i].scale.burst >= 2
        /\ stars[i].hit = "pointer"
        /\ stars[i].awards = 1

\* the step is a pointer event that handleInteraction records
Recorded == Len(touches') > Len(touches)

\* C27: the pending pointer position changes only when a pointer event is
\* recorded or when an iteration that collects a star clears it; and a star
\* spawned within the radius of a position recorded before the previous
\* iteration is collected by the pointer in the iteration that spawns it,
\* unless a star before it is collected in that iteration.
C27_StalePointerStays ==
  [][/\ lastTouchX' # lastTouchX \/ lastTouchY' # lastTouchY =>
          \/ Recorded
          \/ /\ LoopRan
             /\ NewlyCollected(stars') # {}
             /\ lastTouchX' = NoTouch
             /\ lastTouchY' = NoTouch
     /\ LoopRan /\ touches = <<>> =>
          \A j \in Reached :
             /\ stars'[j].id = now'
             /\ \A k \in NewlyCollected(stars') : k >= j
             => j \in CollectedBy("pointer")]_vars

\* a position recorded before the last iteration is still pending after it:
\* the iteration tested an uncollected star, out of its reach, and no event
\* has come since
C27_Witness ==
  /\ isPlaying
  /\ raf > 0
  /\ lastTouchX # NoTouch
  /\ touches = <<>>
  /\ InReach(stars, lastTouchX, lastTouchY) = {}
  /\ \E i \in 1 .. Len(stars) :
        ~stars[i].collected /\ stars[i].hit = "none" /\ stars[i].scale.grow >= 2

\* C28: a star that is uncollected before an iteration run by the refresh
\* callback, or before any step that runs no iteration, is in the array after
\* it; and while K uncollected stars are in the array such an iteration
\* spawns none.
C28_UncollectedStarStays ==
  [][CallbackRan \/ ~LoopRan =>
       /\ \A i \in Uncollected(stars) : stars[i].id \in Ids(stars')
       /\ Cardinality(Uncollected(stars)) >= StarCap(variant) => spawned' = spawned]_vars

\* K stars, all uncollected and faded in, and the last iteration, later than
\* the spawn interval after the last spawn, spawned none
C28_Witness ==
  /\ Cardinality(Uncollected(stars)) = StarCap(variant)
  /\ Len(stars) = StarCap(variant)
  /\ now - lastStarTime > SpawnInterval(variant)
  /\ \A i \in Uncollected(stars) : ~ScaleBelowOne(variant, stars[i].scale)

\* C29: the array never holds more than K stars (6 in the engine with
\* fallback, 5 in the camera-only engine), collected stars included, and an
\* iteration run by the refresh callback that finds K stars spawns none.
C29_ArrayAtMostK ==
  [][/\ Len(stars') <= (IF variant = Fallback THEN 6 ELSE 5)
     /\ CallbackRan /\ Len(stars) = (IF variant = Fallback THEN 6 ELSE 5) =>
          spawned' = spawned]_vars

\* K stars, some of them collected and in their burst, and the last
\* iteration, later than the spawn interval after the last spawn, spawned none
C29_Witness ==
  /\ Len(stars) = StarCap(variant)
  /\ Cardinality(Uncollected(stars)) < StarCap(variant)
  /\ \E i \in 1 .. Len(stars) : stars[i].collected /\ stars[i].scale.burst >= 2
  /\ now - lastStarTime > SpawnInterval(variant)

\* C30: while the game is not playing no pointer position is pending,
\* whatever pointer events have arrived; and from start() until the first
\* pointer event recorded after it no position is pending and no star of the
\* array has been collected by the pointer.
C30_PointerIgnoredBeforeStart ==
  /\ ~isPlaying => lastTouchX = NoTouch /\ lastTouchY = NoTouch /\ pointed = 0
  /\ isPlaying /\ pointed = 0 =>
       /\ lastTouchX = NoTouch
       /\ lastTouchY = NoTouch
       /\ \A i \in 1 .. Len(stars) : stars[i].source # "pointer"

\* a pointer event arrived before the click on start, and the iteration run
\* by start() has spawned a star within the radius of a place pointer events
\* come from: the star is uncollected
C30_Witness ==
  /\ variant = Fallback
  /\ isPlaying
  /\ now = Epoch + OnTime(variant)
  /\ video = NotReady
  /\ events >= 1
  /\ pointed = 0
  /\ Len(stars) = 1
  /\ ~stars[1].collected
  /\ <<stars[1].x, stars[1].y>> = Home
  /\ \E p \in PointerSpots : PointerHit(variant, stars[1], p[1], p[2])

\* the last gesture of the list is the current one
LastGesture == app.currentGestureIndex = Len(GESTURES) - 1

\* C31: when handleNext is invoked while the last gesture is current, the
\* game state becomes FINISHED, and it remains FINISHED through the stopGame
\* call and the session's close callback: only the click on replay takes the
\* state from FINISHED to another one.
C31_FinishedUntilReplay ==
  [][/\ NextClick /\ LastGesture => app'.gameState = "FINISHED"
     /\ app.gameState = "FINISHED" /\ ~Replay => app'.gameState = "FINISHED"]_vars

\* C32: the score is 100 times the index of the current gesture, the index
\* stays within 0 .. GESTURES.length - 1, and the score never exceeds
\* 100 * (GESTURES.length - 1): startGame() sets both to 0, handleNext adds
\* one gesture and 100 points together, and handleNext at the last gesture
\* changes neither.
C32_ScoreTracksIndex ==
  /\ [](/\ app.score = 100 * app.currentGestureIndex
        /\ app.currentGestureIndex \in 0 .. Len(GESTURES) - 1
        /\ app.score <= 100 * (Len(GESTURES) - 1))
  /\ [][NextClick /\ LastGesture =>
          /\ app'.score = app.score
          /\ app'.currentGestureIndex = app.currentGestureIndex]_vars

\* handleNext has run at the last gesture of the second game, after five
\* advances: the index is still the last one and the score is 500
C32_Witness ==
  /\ app.ended
  /\ Len(app.calls) = 2
  /\ LastGesture
  /\ app.score = 100 * (Len(GESTURES) - 1)

====
